---- MODULE Spec2Model ----
(***************************************************************************)
(* pg-mcp (src/src/index.ts): the connection registry, the read-only       *)
(* statement classifier and the tool-call handlers, as a state machine.    *)
(*                                                                         *)
(* JavaScript runs one handler segment at a time: the code between two     *)
(* awaits is atomic.  Every action below is one such segment of a handler  *)
(* (from the invocation, or from the settlement of the awaited promise, to *)
(* the next await or the return).  The pg driver is the environment: its   *)
(* promises resolve or reject nondeterministically, except Pool.end(),     *)
(* which pg-pool rejects exactly when end() was already called on the pool *)
(* ("Called end on pool more than once").                                  *)
(***************************************************************************)
EXTENDS Integers, Sequences, FiniteSets, TLC

VARIABLES
    connections,  \* the Map `connections`, as its entry list in insertion order
    pools,        \* every pg.Pool constructed so far, in construction order
    calls,        \* every CallTool request received so far, in arrival order
    sd,           \* the SIGINT handler: its position and its Map iterator
    env,          \* process.env.DATABASE_URL
    hist,         \* per identifier: the last connect/disconnect that succeeded
    sql,          \* classifier run: the string handed to isBlockedQuery
    verdict,      \* classifier run: what isBlockedQuery returned
    catalog       \* the database catalog the introspection queries read

vars == <<connections, pools, calls, sd, env, hist, sql, verdict, catalog>>

----------------------------------------------------------------------------
(* Bounds *)

\* tool calls received in one run of the server
MaxCalls == 3
\* pg_connect calls received in one run of the target-resolution specification
MaxTargetCalls == 1

\* requests received in the tools specification
MaxToolCalls == 3

\* requests received in the pg_get_ddl specification
MaxDdlCalls == 3

\* requests received in the specification with fairness
MaxLiveCalls == 2

----------------------------------------------------------------------------
(* Values *)

\* An optional value is the empty set (JavaScript's undefined) or {v}.
Undefined == {}

Some(v) == {v}

Val(o) == CHOOSE v \in o : TRUE

\* JavaScript truthiness of an optional string: undefined and "" are falsy
Truthy(o) == o # Undefined /\ o # Some("")

\* a || b
OrElse(a, b) == IF Truthy(a) THEN a ELSE b

Ids == {"a", "b"}

----------------------------------------------------------------------------
(* Statement classifier: strings are sequences of one-character strings *)

Lower == <<"a","b","c","d","e","f","g","h","i","j","k","l","m",
           "n","o","p","q","r","s","t","u","v","w","x","y","z">>
Upper == <<"A","B","C","D","E","F","G","H","I","J","K","L","M",
           "N","O","P","Q","R","S","T","U","V","W","X","Y","Z">>

\* the i flag: both sides are compared after upper-casing
ToUpper(c) ==
    IF \E i \in 1..26 : Lower[i] = c
    THEN Upper[CHOOSE i \in 1..26 : Lower[i] = c]
    ELSE c

ToLower(c) ==
    IF \E i \in 1..26 : Upper[i] = c
    THEN Lower[CHOOSE i \in 1..26 : Upper[i] = c]
    ELSE c

\* the characters of the model's alphabet that \s matches
IsSpace(c) == c \in {" ", "\t", "\n", "\r"}

\* ^\s* : the position of the first character that is not whitespace
RECURSIVE SkipSpace(_, _)
SkipSpace(s, i) ==
    IF i <= Len(s) /\ IsSpace(s[i]) THEN SkipSpace(s, i + 1) ELSE i

\* the keyword of each pattern /^\s*KEYWORD\s+/i, in the order of the array
BLOCKED_PATTERNS == <<
    <<"I","N","S","E","R","T">>,
    <<"U","P","D","A","T","E">>,
    <<"D","E","L","E","T","E">>,
    <<"T","R","U","N","C","A","T","E">>,
    <<"M","E","R","G","E">>,
    <<"C","R","E","A","T","E">>,
    <<"A","L","T","E","R">>,
    <<"D","R","O","P">>,
    <<"R","E","N","A","M","E">>,
    <<"G","R","A","N","T">>,
    <<"R","E","V","O","K","E">>,
    <<"C","O","P","Y">>,
    <<"V","A","C","U","U","M">>,
    <<"R","E","I","N","D","E","X">>,
    <<"C","L","U","S","T","E","R">>,
    <<"C","O","M","M","E","N","T">> >>

\* s has keyword kw, in any case, at position j
KeywordAt(kw, s, j) ==
    /\ j + Len(kw) - 1 <= Len(s)
    /\ \A k \in 1..Len(kw) : ToUpper(s[j + k - 1]) = kw[k]

\* /^\s*KEYWORD\s+/i.test(s): leading whitespace, the keyword, then at least
\* one whitespace character
PatternTest(kw, s) ==
    LET j == SkipSpace(s, 1) IN
    /\ KeywordAt(kw, s, j)
    /\ j + Len(kw) <= Len(s)
    /\ IsSpace(s[j + Len(kw)])

isBlockedQuery(s) ==
    \E p \in DOMAIN BLOCKED_PATTERNS : PatternTest(BLOCKED_PATTERNS[p], s)

----------------------------------------------------------------------------
(* The Map `connections`.  A JavaScript Map keeps its entries in insertion *)
(* order; delete empties the entry's slot, set on a present key replaces   *)
(* the value in place, set on an absent key appends; an iterator walks the *)
(* slots by index and so also reaches entries appended after it started.   *)

EmptySlot == [key |-> "", live |-> FALSE, pool |-> 0, readOnly |-> FALSE]

SlotOf(m, id) == CHOOSE i \in DOMAIN m : m[i].live /\ m[i].key = id

\* connections.has(id)
ConnectionsHas(id) ==
    \E i \in DOMAIN connections : connections[i].live /\ connections[i].key = id

\* connections.get(id), for an id that is present
ConnectionsGet(id) ==
    LET e == connections[SlotOf(connections, id)] IN
    [pool |-> e.pool, readOnly |-> e.readOnly]

\* connections.set(id, info)
ConnectionsSet(id, info) ==
    LET e == [key |-> id, live |-> TRUE,
              pool |-> info.pool, readOnly |-> info.readOnly] IN
    IF ConnectionsHas(id)
    THEN [connections EXCEPT ![SlotOf(connections, id)] = e]
    ELSE Append(connections, e)

\* a disconnect that forgets to remove the entry
ConnectionsDeleteSkipped(id) == connections

\* connections.clear() in place of the delete
ConnectionsClear(id) == [i \in DOMAIN connections |-> EmptySlot]

\* connections.delete(id)
ConnectionsDelete(id) ==
    IF ConnectionsHas(id)
    THEN [connections EXCEPT ![SlotOf(connections, id)] = EmptySlot]
    ELSE connections

\* the identifiers currently in the Map
Keys == {connections[i].key : i \in {j \in DOMAIN connections : connections[j].live}}

----------------------------------------------------------------------------
(* ConnectSchema and target resolution *)

\* ConnectSchema.parse throws unless connectionId is given (z.string())
ConnectSchemaOk(args) == args.connectionId # Undefined

\* ConnectSchema.parse: port, ssl and readOnly get their defaults
ConnectSchemaParse(args) ==
    [connectionId |-> Val(args.connectionId),
     url      |-> args.url,
     host     |-> args.host,
     port     |-> IF args.port = Undefined THEN 5432 ELSE Val(args.port),
     database |-> args.database,
     user     |-> args.user,
     password |-> args.password,
     ssl      |-> IF args.ssl = Undefined THEN FALSE ELSE Val(args.ssl),
     readOnly |-> IF args.readOnly = Undefined THEN TRUE ELSE Val(args.readOnly)]

\* the operands swapped: process.env.DATABASE_URL || input.url
connectionUrlEnvFirst(input) == OrElse(env, input.url)

\* const connectionUrl = input.url || process.env.DATABASE_URL
connectionUrl(input) == OrElse(input.url, env)

\* !connectionUrl && (!input.host || !input.database || !input.user || !input.password)
NoUsableTarget(input) ==
    /\ ~Truthy(connectionUrl(input))
    /\ \/ ~Truthy(input.host)
       \/ ~Truthy(input.database)
       \/ ~Truthy(input.user)
       \/ ~Truthy(input.password)

\* the options object handed to new Pool(...)
PoolConfig(input) ==
    IF Truthy(connectionUrl(input))
    THEN [kind |-> "connectionString",
          connectionString |-> connectionUrl(input),
          host |-> Undefined, port |-> Undefined, database |-> Undefined,
          user |-> Undefined, password |-> Undefined, ssl |-> Undefined,
          max |-> 5, idleTimeoutMillis |-> 30000,
          connectionTimeoutMillis |-> 10000]
    ELSE [kind |-> "parameters",
          connectionString |-> Undefined,
          host |-> input.host, port |-> Some(input.port),
          database |-> input.database, user |-> input.user,
          password |-> input.password,
          ssl |-> Some(IF input.ssl THEN "rejectUnauthorized: false" ELSE "false"),
          max |-> 5, idleTimeoutMillis |-> 30000,
          connectionTimeoutMillis |-> 10000]

\* a pool as constructed: end() never called, nothing sent to it, not in the Map
NewPool(config, by) ==
    [config |-> config, creator |-> by, endCalls |-> 0, queryCalls |-> 0,
     stored |-> FALSE]

\* pool.end() is called on pool p
PoolEnd(p) == [pools EXCEPT ![p].endCalls = @ + 1]

\* pg-pool: end() on a pool that is already ending rejects, otherwise it resolves
EndSettles(p) == IF pools[p].endCalls = 0 THEN "resolve" ELSE "reject"

\* pg-pool: query() on a pool that is ending rejects; otherwise the backend decides
QuerySettles(p) == IF pools[p].endCalls = 0 THEN "any" ELSE "reject"

----------------------------------------------------------------------------
(* Tool calls *)

\* the process serves requests until process.exit is reached
Running == sd.state # "exited"

\* a request: args is its arguments object, id the connectionId it names
NewCall(tool, id, args) ==
    [tool |-> tool, id |-> id, args |-> args, pc |-> "done", result |-> "pending",
     pool |-> 0, readOnly |-> FALSE, settle |-> "none", sent |-> 0,
     overlap |-> {}, parts |-> <<>>, todo |-> <<>>, columns |-> <<>>,
     text |-> <<>>, command |-> ""]

\* a catch block that returned what the handler had built so far
CaughtWithParts(call) ==
    [call EXCEPT !.pc = "done", !.result = "Error", !.text = call.parts]

\* catch (error): the handler's locals are gone; the result is the error
\* message with isError = true
Caught(call) ==
    [call EXCEPT !.pc = "done", !.result = "Error",
                 !.parts = <<>>, !.todo = <<>>, !.columns = <<>>, !.text = <<>>]

\* the connect calls on id that are awaiting their probe
InFlightConnects(id) ==
    {c \in DOMAIN calls : /\ calls[c].tool = "pg_connect"
                          /\ calls[c].id = id
                          /\ calls[c].pc # "done"}

Returned(c, result) == [calls EXCEPT ![c].pc = "done", ![c].result = result]

\* the existence check left out
AlreadyExistsUnchecked(input) == FALSE

\* if (connections.has(input.connectionId)) return "... already exists"
AlreadyExists(input) == ConnectionsHas(input.connectionId)

\* case "pg_connect", up to `await pool.connect()`
pg_connect(args) ==
    LET c == Len(calls) + 1 IN
    /\ Running
    /\ UNCHANGED <<connections, sd, env, hist, sql, verdict, catalog>>
    /\ IF ~ConnectSchemaOk(args)
       THEN /\ calls' = Append(calls, Caught(NewCall("pg_connect", "", args)))
            /\ UNCHANGED pools
       ELSE LET input == ConnectSchemaParse(args)
                call  == [NewCall("pg_connect", input.connectionId, args)
                            EXCEPT !.readOnly = input.readOnly,
                                   !.overlap = InFlightConnects(input.connectionId)]
            IN
            IF AlreadyExists(input)
            THEN /\ calls' = Append(calls, [call EXCEPT !.result = "AlreadyExists"])
                 /\ UNCHANGED pools
            ELSE IF NoUsableTarget(input)
            THEN /\ calls' = Append(calls, [call EXCEPT !.result = "InvalidTarget"])
                 /\ UNCHANGED pools
            ELSE /\ pools' = Append(pools, NewPool(PoolConfig(input), c))
                 /\ calls' = Append(calls, [call EXCEPT !.pc = "await_connect",
                                                        !.pool = Len(pools) + 1])

\* a server that resumes a connect only when every earlier call has returned
ConnectProbeSentInTurn(c) ==
    /\ Running
    /\ calls[c].pc = "await_connect"
    /\ \A d \in 1..(c - 1) : calls[d].pc = "done"
    /\ calls' = [calls EXCEPT ![c].pc = "await_version"]
    /\ UNCHANGED <<connections, pools, sd, env, hist, sql, verdict, catalog>>

\* `await pool.connect()` resolved: client.query("SELECT version()") is sent
ConnectProbeSent(c) ==
    /\ Running
    /\ calls[c].pc = "await_connect"
    /\ calls' = [calls EXCEPT ![c].pc = "await_version"]
    /\ UNCHANGED <<connections, pools, sd, env, hist, sql, verdict, catalog>>

\* a failed probe that removes whatever entry its identifier has
ConnectProbeFailedCleansUp(c) ==
    /\ Running
    /\ calls[c].pc \in {"await_connect", "await_version"}
    /\ connections' = ConnectionsDelete(calls[c].id)
    /\ calls' = [calls EXCEPT ![c] = Caught(calls[c])]
    /\ UNCHANGED <<pools, sd, env, hist, sql, verdict, catalog>>

\* a connect that stores its entry although the probe failed
ConnectProbeFailedStored(c) ==
    /\ Running
    /\ calls[c].pc \in {"await_connect", "await_version"}
    /\ connections' = ConnectionsSet(calls[c].id,
                          [pool |-> calls[c].pool, readOnly |-> calls[c].readOnly])
    /\ calls' = [calls EXCEPT ![c] = Caught(calls[c])]
    /\ UNCHANGED <<pools, sd, env, hist, sql, verdict, catalog>>

\* `await pool.connect()` or `await client.query(...)` rejected: the catch block
ConnectProbeFailed(c) ==
    /\ Running
    /\ calls[c].pc \in {"await_connect", "await_version"}
    /\ calls' = [calls EXCEPT ![c] = Caught(calls[c])]
    /\ UNCHANGED <<connections, pools, sd, env, hist, sql, verdict, catalog>>

\* `await client.query("SELECT version()")` resolved: release, store, return
ConnectStored(c) ==
    /\ Running
    /\ calls[c].pc = "await_version"
    /\ connections' = ConnectionsSet(calls[c].id,
                          [pool |-> calls[c].pool, readOnly |-> calls[c].readOnly])
    /\ pools' = [pools EXCEPT ![calls[c].pool].stored = TRUE]
    /\ calls' = Returned(c, "Success")
    /\ hist' = [hist EXCEPT ![calls[c].id] = "connected"]
    /\ UNCHANGED <<sd, env, sql, verdict, catalog>>

\* case "pg_disconnect", up to `await conn.pool.end()`
pg_disconnect(id) ==
    /\ Running
    /\ UNCHANGED <<connections, sd, env, hist, sql, verdict, catalog>>
    /\ IF ~ConnectionsHas(id)
       THEN /\ calls' = Append(calls, [NewCall("pg_disconnect", id, [connectionId |-> Some(id)])
                                         EXCEPT !.result = "NotFound"])
            /\ UNCHANGED pools
       ELSE LET conn == ConnectionsGet(id) IN
            /\ pools' = PoolEnd(conn.pool)
            /\ calls' = Append(calls, [NewCall("pg_disconnect", id, [connectionId |-> Some(id)])
                                         EXCEPT !.pc = "await_end",
                                                !.pool = conn.pool,
                                                !.readOnly = conn.readOnly,
                                                !.settle = EndSettles(conn.pool)])

\* `await conn.pool.end()` resolved: connections.delete, return
DisconnectDone(c) ==
    /\ Running
    /\ calls[c].tool = "pg_disconnect"
    /\ calls[c].pc = "await_end"
    /\ calls[c].settle = "resolve"
    /\ connections' = ConnectionsDelete(calls[c].id)
    /\ calls' = Returned(c, "Success")
    /\ hist' = [hist EXCEPT ![calls[c].id] = "disconnected"]
    /\ UNCHANGED <<pools, sd, env, sql, verdict, catalog>>

\* `await conn.pool.end()` rejected: the catch block
DisconnectFailed(c) ==
    /\ Running
    /\ calls[c].tool = "pg_disconnect"
    /\ calls[c].pc = "await_end"
    /\ calls[c].settle = "reject"
    /\ calls' = [calls EXCEPT ![c] = Caught(calls[c])]
    /\ UNCHANGED <<connections, pools, sd, env, hist, sql, verdict, catalog>>

\* the guard without the entry's flag
ReadOnlyBlockedAnyEntry(conn, text) == isBlockedQuery(text)

\* conn.readOnly && isBlockedQuery(input.sql)
ReadOnlyBlocked(conn, text) == conn.readOnly /\ isBlockedQuery(text)

\* case "pg_query", up to `await conn.pool.query(input.sql, input.params)`
pg_query(id, text) ==
    /\ Running
    /\ UNCHANGED <<connections, sd, env, hist, sql, verdict, catalog>>
    /\ IF ~ConnectionsHas(id)
       THEN /\ calls' = Append(calls, [NewCall("pg_query", id, [connectionId |-> Some(id), sql |-> text])
                                         EXCEPT !.result = "NotFound"])
            /\ UNCHANGED pools
       ELSE LET conn == ConnectionsGet(id)
                call == [NewCall("pg_query", id, [connectionId |-> Some(id), sql |-> text])
                           EXCEPT !.pool = conn.pool, !.readOnly = conn.readOnly]
            IN
            IF ReadOnlyBlocked(conn, text)
            THEN /\ calls' = Append(calls, [call EXCEPT !.result = "ReadOnlyViolation"])
                 /\ UNCHANGED pools
            ELSE /\ pools' = [pools EXCEPT ![conn.pool].queryCalls = @ + 1]
                 /\ calls' = Append(calls, [call EXCEPT !.pc = "await_query",
                                                        !.sent = 1,
                                                        !.settle = QuerySettles(conn.pool)])

\* the commands the backend reports in result.command; SHOW returns rows too
Commands == {"SELECT", "INSERT", "SHOW"}

\* a response shaped by whether the command returns rows
ShapeByRows(command) == IF command \in {"SELECT", "SHOW"} THEN "Rows" ELSE "Command"

\* if (result.command === "SELECT") {rows, rowCount, fields} else the
\* "Command: ... Rows affected: ..." text
Shape(command) == IF command = "SELECT" THEN "Rows" ELSE "Command"

\* `await conn.pool.query(...)` resolved: the response is shaped by result.command
QueryDone(c, command) ==
    /\ Running
    /\ calls[c].pc = "await_query"
    /\ calls[c].settle = "any"
    /\ calls' = [Returned(c, Shape(command)) EXCEPT ![c].command = command]
    /\ UNCHANGED <<connections, pools, sd, env, hist, sql, verdict, catalog>>

\* a pg_query that drops the entry of its identifier when its query fails
QueryFailedDrops(c) ==
    /\ Running
    /\ calls[c].pc = "await_query"
    /\ connections' = ConnectionsDelete(calls[c].id)
    /\ calls' = [calls EXCEPT ![c] = Caught(calls[c])]
    /\ UNCHANGED <<pools, sd, env, hist, sql, verdict, catalog>>

\* `await conn.pool.query(...)` rejected: the catch block
QueryFailed(c) ==
    /\ Running
    /\ calls[c].pc = "await_query"
    /\ calls' = [calls EXCEPT ![c] = Caught(calls[c])]
    /\ UNCHANGED <<connections, pools, sd, env, hist, sql, verdict, catalog>>

----------------------------------------------------------------------------
(* pg_list_schemas, pg_get_ddl, unknown tools, invalid arguments *)

\* DisconnectSchema / QuerySchema / ListSchemasSchema / GetDdlSchema .parse
\* throws on arguments that do not fit the schema: the catch block
InvalidArguments(tool) ==
    /\ Running
    /\ calls' = Append(calls, Caught(NewCall(tool, "", [connectionId |-> Undefined])))
    /\ UNCHANGED <<connections, pools, sd, env, hist, sql, verdict, catalog>>

\* a default case that throws outside the try
UnknownToolThrows(name) ==
    /\ Running
    /\ calls' = Append(calls, [NewCall(name, "", [connectionId |-> Undefined]) EXCEPT !.result = "Exception"])
    /\ UNCHANGED <<connections, pools, sd, env, hist, sql, verdict, catalog>>

\* default: "Unknown tool: <name>", isError = true
UnknownTool(name) ==
    /\ Running
    /\ calls' = Append(calls, [NewCall(name, "", [connectionId |-> Undefined]) EXCEPT !.result = "UnknownTool"])
    /\ UNCHANGED <<connections, pools, sd, env, hist, sql, verdict, catalog>>

\* call is about to await pool.query(...) on its pool, in the handler state pc
Awaiting(call, pc) ==
    [call EXCEPT !.pc = pc, !.sent = @ + 1, !.settle = QuerySettles(call.pool)]

\* case "pg_list_schemas", up to `await conn.pool.query(...)`
pg_list_schemas(id) ==
    /\ Running
    /\ UNCHANGED <<connections, sd, env, hist, sql, verdict, catalog>>
    /\ IF ~ConnectionsHas(id)
       THEN /\ calls' = Append(calls, [NewCall("pg_list_schemas", id, [connectionId |-> Some(id)])
                                         EXCEPT !.result = "NotFound"])
            /\ UNCHANGED pools
       ELSE LET conn == ConnectionsGet(id)
                call == [NewCall("pg_list_schemas", id, [connectionId |-> Some(id)])
                           EXCEPT !.pool = conn.pool, !.readOnly = conn.readOnly]
            IN /\ pools' = [pools EXCEPT ![conn.pool].queryCalls = @ + 1]
               /\ calls' = Append(calls, Awaiting(call, "await_schemas"))

\* the schema query resolved: its rows are returned
ListSchemasDone(c) ==
    /\ Running
    /\ calls[c].pc = "await_schemas"
    /\ calls[c].settle = "any"
    /\ calls' = Returned(c, "Success")
    /\ UNCHANGED <<connections, pools, sd, env, hist, sql, verdict, catalog>>

\* the schema query rejected: the catch block
ListSchemasFailed(c) ==
    /\ Running
    /\ calls[c].pc = "await_schemas"
    /\ calls' = [calls EXCEPT ![c] = Caught(calls[c])]
    /\ UNCHANGED <<connections, pools, sd, env, hist, sql, verdict, catalog>>

SystemSchemas == {"pg_catalog", "information_schema", "pg_toast"}

\* const schemaFilter = input.schema ? `AND n.nspname = '${input.schema}'`
\*                     : `AND n.nspname NOT IN ('pg_catalog', 'information_schema', 'pg_toast')`
schemaFilter(schema, nspname) ==
    IF Truthy(schema) THEN nspname = Val(schema) ELSE nspname \notin SystemSchemas

\* WHERE schemaname NOT IN ('pg_catalog', 'information_schema')
\*   ${input.schema ? `AND schemaname = '${input.schema}'` : ""}
schemanameFilter(schema, schemaname) ==
    /\ schemaname \notin {"pg_catalog", "information_schema"}
    /\ Truthy(schema) => schemaname = Val(schema)

\* ${input.schema ? `AND tc.table_schema = '${input.schema}'`
\*                : `AND tc.table_schema NOT IN ('pg_catalog', 'information_schema')`}
tableSchemaFilter(schema, table_schema) ==
    IF Truthy(schema) THEN table_schema = Val(schema)
    ELSE table_schema \notin {"pg_catalog", "information_schema"}

\* the WHERE clause of the query of each pass
PassFilter(kind, schema, s) ==
    CASE kind \in {"enum", "table", "unique", "index"} -> schemaFilter(schema, s)
      [] kind \in {"sequence", "view"} -> schemanameFilter(schema, s)
      [] kind = "fk" -> tableSchemaFilter(schema, s)

\* the rows the query of a pass returns
PassRows(kind, schema) ==
    LET Keep(o) == o.kind = kind /\ PassFilter(kind, schema, o.schema)
    IN SelectSeq(catalog, Keep)

\* the statement emitted for an object of each kind
StatementOf(kind) ==
    CASE kind = "enum" -> "CREATE TYPE"
      [] kind = "sequence" -> "CREATE SEQUENCE"
      [] kind = "table" -> "CREATE TABLE"
      [] kind = "fk" -> "ALTER TABLE FOREIGN KEY"
      [] kind = "unique" -> "ALTER TABLE UNIQUE"
      [] kind = "index" -> "CREATE INDEX"
      [] kind = "view" -> "CREATE VIEW"

\* ddlParts.push(`-- KIND: name`); ddlParts.push(`<statement>`)
Fragments(o, columns, pk) ==
    << [text |-> "--", of |-> o.kind, schema |-> o.schema, name |-> o.name,
        columns |-> <<>>, pk |-> <<>>],
       [text |-> StatementOf(o.kind), of |-> o.kind, schema |-> o.schema,
        name |-> o.name, columns |-> columns, pk |-> pk] >>

\* for (const row of result.rows) { ddlParts.push(...); ddlParts.push(...) }
RECURSIVE Emit(_)
Emit(rows) ==
    IF rows = <<>> THEN <<>>
    ELSE Fragments(Head(rows), <<>>, <<>>) \o Emit(Tail(rows))

\* fragments put before the ones already there
Unshift(parts, fragments) == fragments \o parts

\* ddlParts.push(...): fragments are appended
Push(parts, fragments) == parts \o fragments

\* the handler states of pg_get_ddl in which it awaits a query
DdlAwaits ==
    {"await_enums", "await_sequences", "await_tables", "await_columns", "await_pk",
     "await_fk", "await_unique", "await_indexes", "await_views"}

\* what the handler does with the rows of the query it awaited, up to its
\* next await (pc names it) or its return (pc = "done")
AfterQuery(call) ==
    LET schema == call.args.schema
        Pass(kind) == Push(call.parts, Emit(PassRows(kind, schema)))
        Loop(todo) == IF todo = <<>> THEN "await_fk" ELSE "await_columns"
    IN
    CASE call.pc = "await_enums" ->
           [call EXCEPT !.parts = Pass("enum"), !.pc = "await_sequences"]
      [] call.pc = "await_sequences" ->
           [call EXCEPT !.parts = Pass("sequence"), !.pc = "await_tables"]
      [] call.pc = "await_tables" ->
           [call EXCEPT !.todo = PassRows("table", schema),
                        !.pc = Loop(PassRows("table", schema))]
      [] call.pc = "await_columns" ->
           [call EXCEPT !.columns = Head(call.todo).columns, !.pc = "await_pk"]
      [] call.pc = "await_pk" ->
           [call EXCEPT !.parts = Push(@, Fragments(Head(call.todo), call.columns,
                                                   Head(call.todo).pk)),
                        !.columns = <<>>,
                        !.todo = Tail(@),
                        !.pc = Loop(Tail(call.todo))]
      [] call.pc = "await_fk" ->
           [call EXCEPT !.parts = Pass("fk"), !.pc = "await_unique"]
      [] call.pc = "await_unique" ->
           [call EXCEPT !.parts = Pass("unique"), !.pc = "await_indexes"]
      [] call.pc = "await_indexes" ->
           [call EXCEPT !.parts = Pass("index"), !.pc = "await_views"]
      [] call.pc = "await_views" ->
           [call EXCEPT !.parts = <<>>, !.text = Pass("view"),
                        !.pc = "done", !.result = "Success"]

\* case "pg_get_ddl", up to the await of the enum query
pg_get_ddl(id, schema) ==
    /\ Running
    /\ UNCHANGED <<connections, sd, env, hist, sql, verdict, catalog>>
    /\ IF ~ConnectionsHas(id)
       THEN /\ calls' = Append(calls, [NewCall("pg_get_ddl", id, [connectionId |-> Some(id), schema |-> schema])
                                         EXCEPT !.result = "NotFound"])
            /\ UNCHANGED pools
       ELSE LET conn == ConnectionsGet(id)
                call == [NewCall("pg_get_ddl", id, [connectionId |-> Some(id), schema |-> schema])
                           EXCEPT !.pool = conn.pool, !.readOnly = conn.readOnly]
            IN /\ pools' = [pools EXCEPT ![conn.pool].queryCalls = @ + 1]
               /\ calls' = Append(calls, Awaiting(call, "await_enums"))

\* an introspection query resolved: its fragments are pushed and the next
\* query is sent, or, after the views, ddlParts.join("\n") is returned
DdlQueryDone(c) ==
    /\ Running
    /\ calls[c].pc \in DdlAwaits
    /\ calls[c].settle = "any"
    /\ LET after == AfterQuery(calls[c]) IN
       IF after.pc = "done"
       THEN /\ calls' = [calls EXCEPT ![c] = [after EXCEPT !.settle = "none"]]
            /\ UNCHANGED pools
       ELSE /\ calls' = [calls EXCEPT ![c] = Awaiting(after, after.pc)]
            /\ pools' = [pools EXCEPT ![after.pool].queryCalls = @ + 1]
    /\ UNCHANGED <<connections, sd, env, hist, sql, verdict, catalog>>

\* an introspection query rejected: the catch block
DdlQueryFailed(c) ==
    /\ Running
    /\ calls[c].pc \in DdlAwaits
    /\ calls' = [calls EXCEPT ![c] = Caught(calls[c])]
    /\ UNCHANGED <<connections, pools, sd, env, hist, sql, verdict, catalog>>

----------------------------------------------------------------------------
(* process.on("SIGINT") *)

\* the slots at or after position i that hold an entry
LiveFrom(i) == {j \in DOMAIN connections : j >= i /\ connections[j].live}

\* the for-of loop from iterator position i: the next entry's pool.end() is
\* called and awaited; with no entry left, process.exit(0)
ShutdownLoop(i) ==
    IF LiveFrom(i) = {}
    THEN /\ sd' = [state |-> "exited", idx |-> 0, settle |-> "none"]
         /\ UNCHANGED pools
    ELSE LET j == CHOOSE k \in LiveFrom(i) : \A l \in LiveFrom(i) : k <= l
             p == connections[j].pool
         IN /\ sd' = [state |-> "await_end", idx |-> j, settle |-> EndSettles(p)]
            /\ pools' = PoolEnd(p)

\* SIGINT arrives: the handler starts iterating the Map
Sigint ==
    /\ sd.state = "idle"
    /\ ShutdownLoop(1)
    /\ UNCHANGED <<connections, calls, env, hist, sql, verdict, catalog>>

\* `await conn.pool.end()` resolved in the handler: the loop goes on
ShutdownNext ==
    /\ sd.state = "await_end"
    /\ sd.settle = "resolve"
    /\ ShutdownLoop(sd.idx + 1)
    /\ UNCHANGED <<connections, calls, env, hist, sql, verdict, catalog>>

\* `await conn.pool.end()` rejected in the handler: the async handler throws,
\* the loop is abandoned and process.exit(0) is not reached
ShutdownThrew ==
    /\ sd.state = "await_end"
    /\ sd.settle = "reject"
    /\ sd' = [state |-> "threw", idx |-> sd.idx, settle |-> "none"]
    /\ UNCHANGED <<connections, pools, calls, env, hist, sql, verdict, catalog>>

----------------------------------------------------------------------------
(* The database catalog: the objects the introspection queries of pg_get_ddl *)
(* read, listed in the order of the queries' ORDER BY (schema, then name).   *)

Object(kind, schema, name) ==
    [kind |-> kind, schema |-> schema, name |-> name, columns |-> <<>>, pk |-> <<>>]

Table(schema, name, columns, pk) ==
    [kind |-> "table", schema |-> schema, name |-> name,
     columns |-> columns, pk |-> pk]

\* customers, orders referencing customers, and one object of every other kind
Shop == <<
    Object("enum", "public", "status"),
    Object("sequence", "public", "orders_id_seq"),
    Table("public", "customers", <<"id", "email">>, <<"id">>),
    Table("public", "orders", <<"id", "customer_id">>, <<>>),
    Object("fk", "public", "orders_customer_id_fkey"),
    Object("unique", "public", "customers_email_key"),
    Object("index", "public", "orders_customer_idx"),
    Object("view", "public", "open_orders") >>

----------------------------------------------------------------------------
(* Inputs *)

NoParameters ==
    [host |-> Undefined, port |-> Undefined, database |-> Undefined,
     user |-> Undefined, password |-> Undefined, ssl |-> Undefined]

ConnectArgs(connectionId, url, readOnly) ==
    [connectionId |-> connectionId, url |-> url, readOnly |-> readOnly]
        @@ NoParameters

\* pg_connect arguments of the server specification: a URL or no target at
\* all, readOnly omitted or false, and one request without connectionId
MainConnectArgs ==
    {ConnectArgs(Some(id), url, ro) :
        id \in Ids, url \in {Undefined, Some("postgres://caller")},
        ro \in {Undefined, Some(FALSE)}}
    \cup {ConnectArgs(Undefined, Some("postgres://caller"), Undefined)}

SelectOne == <<"S","E","L","E","C","T"," ","1">>
DropTable == <<"D","R","O","P"," ","t">>

\* pg_query statements of the server specification
MainSql == {SelectOne, DropTable}

----------------------------------------------------------------------------
(* The server *)

Idle == [state |-> "idle", idx |-> 0, settle |-> "none"]

Init ==
    /\ connections = <<>>
    /\ pools = <<>>
    /\ calls = <<>>
    /\ sd = Idle
    /\ env = Undefined
    /\ hist = [id \in Ids |-> "none"]
    /\ sql = <<>>
    /\ verdict = "none"
    /\ catalog = Shop

Connect == \E args \in MainConnectArgs : Len(calls) < MaxCalls /\ pg_connect(args)

Disconnect == \E id \in Ids : Len(calls) < MaxCalls /\ pg_disconnect(id)

Query == \E id \in Ids, text \in MainSql : Len(calls) < MaxCalls /\ pg_query(id, text)

ProbeSent == \E c \in DOMAIN calls : ConnectProbeSent(c)

ProbeFailed == \E c \in DOMAIN calls : ConnectProbeFailed(c)

Stored == \E c \in DOMAIN calls : ConnectStored(c)

Disconnected == \E c \in DOMAIN calls : DisconnectDone(c)

EndRejected == \E c \in DOMAIN calls : DisconnectFailed(c)

QueryResolved == \E c \in DOMAIN calls, command \in Commands : QueryDone(c, command)

QueryRejected == \E c \in DOMAIN calls : QueryFailed(c)

Next ==
    \/ Connect
    \/ ProbeSent
    \/ ProbeFailed
    \/ Stored
    \/ Disconnect
    \/ Disconnected
    \/ EndRejected
    \/ Query
    \/ QueryResolved
    \/ QueryRejected
    \/ Sigint
    \/ ShutdownNext
    \/ ShutdownThrew

Spec == Init /\ [][Next]_vars

----------------------------------------------------------------------------
(* Target resolution on its own: every form of target, every DATABASE_URL *)

TargetConnectArgs ==
    [connectionId : {Some("a")},
     url      : {Undefined, Some(""), Some("postgres://caller")},
     host     : {Undefined, Some("db.example")},
     port     : {Undefined},
     database : {Undefined, Some("app")},
     user     : {Undefined, Some("alice")},
     password : {Undefined, Some(""), Some("secret")},
     ssl      : {Undefined, Some(TRUE)},
     readOnly : {Undefined}]

InitTarget ==
    /\ connections = <<>>
    /\ pools = <<>>
    /\ calls = <<>>
    /\ sd = Idle
    /\ env \in {Undefined, Some(""), Some("postgres://env")}
    /\ hist = [id \in Ids |-> "none"]
    /\ sql = <<>>
    /\ verdict = "none"
    /\ catalog = Shop

ConnectTarget ==
    \E args \in TargetConnectArgs : Len(calls) < MaxTargetCalls /\ pg_connect(args)

NextTarget ==
    \/ ConnectTarget
    \/ ProbeSent
    \/ ProbeFailed
    \/ Stored

SpecTarget == InitTarget /\ [][NextTarget]_vars

----------------------------------------------------------------------------
(* The classifier on its own *)

LowerCase(w) == [k \in DOMAIN w |-> ToLower(w[k])]

\* Insert, Update, ...
Capitalised(w) == [k \in DOMAIN w |-> IF k = 1 THEN w[k] ELSE ToLower(w[k])]

Keywords == {BLOCKED_PATTERNS[p] : p \in DOMAIN BLOCKED_PATTERNS}

\* what a statement may begin with: a blocked keyword in three spellings, other
\* keywords, a comment, nothing
FirstWords ==
    Keywords
    \cup {LowerCase(w) : w \in Keywords}
    \cup {Capitalised(w) : w \in Keywords}
    \cup {<<"S","E","L","E","C","T">>, <<"w","i","t","h">>, <<"-","-">>, <<>>}

Leads == {<<>>, <<" ">>, <<"\n", "\t">>}

Tails == {<<>>, <<" ">>, <<" ", "t">>, <<"\n", "t">>, <<";">>,
          <<"(", "t", ")">>, <<"X", " ", "t">>}

SqlInputs == {lead \o w \o tail : lead \in Leads, w \in FirstWords, tail \in Tails}

InitClassifier ==
    /\ connections = <<>>
    /\ pools = <<>>
    /\ calls = <<>>
    /\ sd = Idle
    /\ env = Undefined
    /\ hist = [id \in Ids |-> "none"]
    /\ sql \in SqlInputs
    /\ verdict = "none"
    /\ catalog = Shop

Classify ==
    /\ verdict = "none"
    /\ verdict' = IF isBlockedQuery(sql) THEN "blocked" ELSE "allowed"
    /\ UNCHANGED <<connections, pools, calls, sd, env, hist, sql, catalog>>

NextClassifier == Classify

SpecClassifier == InitClassifier /\ [][NextClassifier]_vars

----------------------------------------------------------------------------
(* All five tools, unknown tools and invalid arguments *)

\* pg_connect arguments of the tools specification: a URL for each identifier,
\* no target at all, and a request without connectionId
ToolConnectArgs ==
    {ConnectArgs(Some(id), Some("postgres://caller"), Undefined) : id \in Ids}
    \cup {ConnectArgs(Some("a"), Undefined, Undefined),
          ConnectArgs(Undefined, Some("postgres://caller"), Undefined)}

ToolNames == {"pg_disconnect", "pg_query", "pg_list_schemas", "pg_get_ddl"}

\* one table with a primary key and one view
Small == <<
    Table("public", "customers", <<"id">>, <<"id">>),
    Object("view", "public", "open_orders") >>

InitTools ==
    /\ connections = <<>>
    /\ pools = <<>>
    /\ calls = <<>>
    /\ sd = Idle
    /\ env = Undefined
    /\ hist = [id \in Ids |-> "none"]
    /\ sql = <<>>
    /\ verdict = "none"
    /\ catalog = Small

ToolConnect == \E args \in ToolConnectArgs : Len(calls) < MaxToolCalls /\ pg_connect(args)

ToolDisconnect == \E id \in Ids : Len(calls) < MaxToolCalls /\ pg_disconnect(id)

ToolQuery == \E id \in Ids, text \in MainSql : Len(calls) < MaxToolCalls /\ pg_query(id, text)

ListSchemas == \E id \in Ids : Len(calls) < MaxToolCalls /\ pg_list_schemas(id)

GetDdl == \E id \in Ids : Len(calls) < MaxToolCalls /\ pg_get_ddl(id, Undefined)

Unknown == Len(calls) < MaxToolCalls /\ UnknownTool("pg_drop")

Invalid == \E tool \in ToolNames : Len(calls) < MaxToolCalls /\ InvalidArguments(tool)

SchemasResolved == \E c \in DOMAIN calls : ListSchemasDone(c)

SchemasRejected == \E c \in DOMAIN calls : ListSchemasFailed(c)

DdlResolved == \E c \in DOMAIN calls : DdlQueryDone(c)

DdlRejected == \E c \in DOMAIN calls : DdlQueryFailed(c)

NextTools ==
    \/ ToolConnect
    \/ ProbeSent
    \/ ProbeFailed
    \/ Stored
    \/ ToolDisconnect
    \/ Disconnected
    \/ EndRejected
    \/ ToolQuery
    \/ QueryResolved
    \/ QueryRejected
    \/ ListSchemas
    \/ SchemasResolved
    \/ SchemasRejected
    \/ GetDdl
    \/ DdlResolved
    \/ DdlRejected
    \/ Unknown
    \/ Invalid
    \/ Sigint
    \/ ShutdownNext
    \/ ShutdownThrew

SpecTools == InitTools /\ [][NextTools]_vars

----------------------------------------------------------------------------
(* pg_get_ddl over several catalogs, with a disconnect that may overlap it *)

Schemas == <<"app", "information_schema", "pg_catalog", "pg_toast", "public">>

Kinds == <<"enum", "sequence", "table", "fk", "unique", "index", "view">>

\* one object of every kind in every schema, system schemas included
Everything ==
    [i \in 1..(Len(Schemas) * Len(Kinds)) |->
        LET s == Schemas[((i - 1) \div Len(Kinds)) + 1]
            k == Kinds[((i - 1) % Len(Kinds)) + 1]
        IN IF k = "table" THEN Table(s, "t", <<"id">>, <<"id">>)
                          ELSE Object(k, s, k)]

DdlCatalogs == {<<>>, Shop, Everything}

\* input.schema: omitted, empty, a user schema, a system schema
DdlSchemas == {Undefined, Some(""), Some("public"), Some("pg_toast")}

InitDdl ==
    /\ connections = <<>>
    /\ pools = <<>>
    /\ calls = <<>>
    /\ sd = Idle
    /\ env = Undefined
    /\ hist = [id \in Ids |-> "none"]
    /\ sql = <<>>
    /\ verdict = "none"
    /\ catalog \in DdlCatalogs

DdlConnect ==
    /\ Len(calls) < MaxDdlCalls
    /\ pg_connect(ConnectArgs(Some("a"), Some("postgres://caller"), Undefined))

DdlDisconnect == Len(calls) < MaxDdlCalls /\ pg_disconnect("a")

DdlGet == \E schema \in DdlSchemas : Len(calls) < MaxDdlCalls /\ pg_get_ddl("a", schema)

NextDdl ==
    \/ DdlConnect
    \/ ProbeSent
    \/ ProbeFailed
    \/ Stored
    \/ DdlGet
    \/ DdlResolved
    \/ DdlRejected
    \/ DdlDisconnect
    \/ Disconnected
    \/ EndRejected

SpecDdl == InitDdl /\ [][NextDdl]_vars

----------------------------------------------------------------------------
(* The server under fairness: the driver settles every promise it returned *)
(* and the event loop then resumes the handler that awaits it.             *)

\* the continuations of call c after an await that resolved
Resolves(c) ==
    \/ ConnectProbeSent(c)
    \/ ConnectStored(c)
    \/ DisconnectDone(c)
    \/ \E command \in Commands : QueryDone(c, command)
    \/ ListSchemasDone(c)
    \/ DdlQueryDone(c)

\* the continuations of call c after an await that rejected
Rejects(c) ==
    \/ ConnectProbeFailed(c)
    \/ DisconnectFailed(c)
    \/ QueryFailed(c)
    \/ ListSchemasFailed(c)
    \/ DdlQueryFailed(c)

\* the handler of call c is resumed
Resumed(c) == c \in DOMAIN calls /\ (Resolves(c) \/ Rejects(c))

LiveConnect ==
    \E id \in Ids :
        /\ Len(calls) < MaxLiveCalls
        /\ pg_connect(ConnectArgs(Some(id), Some("postgres://caller"), Undefined))

LiveDisconnect == \E id \in Ids : Len(calls) < MaxLiveCalls /\ pg_disconnect(id)

LiveQuery == \E id \in Ids : Len(calls) < MaxLiveCalls /\ pg_query(id, SelectOne)

LiveListSchemas == \E id \in Ids : Len(calls) < MaxLiveCalls /\ pg_list_schemas(id)

LiveGetDdl == \E id \in Ids : Len(calls) < MaxLiveCalls /\ pg_get_ddl(id, Undefined)

NextLive ==
    \/ LiveConnect
    \/ ProbeSent
    \/ ProbeFailed
    \/ Stored
    \/ LiveDisconnect
    \/ Disconnected
    \/ EndRejected
    \/ LiveQuery
    \/ QueryResolved
    \/ QueryRejected
    \/ LiveListSchemas
    \/ SchemasResolved
    \/ SchemasRejected
    \/ LiveGetDdl
    \/ DdlResolved
    \/ DdlRejected
    \/ Sigint
    \/ ShutdownNext
    \/ ShutdownThrew

\* every promise of the driver settles and its handler is resumed
Fairness == \A c \in 1..MaxLiveCalls : WF_vars(Resumed(c))

SpecLive == InitTools /\ [][NextLive]_vars /\ Fairness

----------------------------------------------------------------------------
(* Properties *)

Calls(tool) == {c \in DOMAIN calls : calls[c].tool = tool}

\* this step receives a new request for `tool`
Received(tool) ==
    /\ Len(calls') = Len(calls) + 1
    /\ calls'[Len(calls')].tool = tool

\* the request this step received
New == calls'[Len(calls')]

\* C1: of two pg_connect calls for one identifier that are in flight at the
\* same time (the second arrives before the first has stored its entry), at
\* most one returns success.
C1_AtMostOneConcurrentConnect ==
    \A c2 \in Calls("pg_connect") : \A c1 \in calls[c2].overlap :
        ~(calls[c1].result = "Success" /\ calls[c2].result = "Success")

\* C2: a pg_connect that opened a pool and then failed its probe has ended
\* that pool by the time it returns the error.
C2_NoLeakedPool ==
    \A c \in Calls("pg_connect") :
        (calls[c].result = "Error" /\ calls[c].pool # 0)
            => pools[calls[c].pool].endCalls >= 1

\* the pg_query calls that found an entry
Found == {c \in Calls("pg_query") : calls[c].pool # 0}

\* C3: a pg_query that found its entry returns the read-only violation exactly
\* when the entry is read-only and the classifier blocks the statement; then
\* nothing is sent to the pool, and otherwise the statement is sent exactly
\* once.  Every query a pool received was sent by such a call.
C3_ReadOnlyGuard ==
    /\ \A c \in Calls("pg_query") :
          calls[c].result = "ReadOnlyViolation" => c \in Found
    /\ \A c \in Found :
          /\ calls[c].result = "ReadOnlyViolation"
                <=> (calls[c].readOnly /\ isBlockedQuery(calls[c].args.sql))
          /\ calls[c].sent = IF calls[c].result = "ReadOnlyViolation" THEN 0 ELSE 1
    /\ \A p \in DOMAIN pools :
          pools[p].queryCalls =
              Cardinality({c \in Found : calls[c].pool = p
                                          /\ calls[c].result # "ReadOnlyViolation"})

\* a read-only entry has rejected a blocked statement and has passed another
\* statement to its pool
C3_Witness ==
    /\ \E c \in Found : calls[c].result = "ReadOnlyViolation"
    /\ \E c \in Found : calls[c].readOnly /\ calls[c].sent = 1

\* s, after its leading whitespace, starts with one of the 16 keywords
StartsWithKeyword(s) ==
    \E p \in DOMAIN BLOCKED_PATTERNS :
        KeywordAt(BLOCKED_PATTERNS[p], s, SkipSpace(s, 1))

\* C4: isBlockedQuery returns true exactly for the strings that, after leading
\* whitespace and ignoring case, start with one of the 16 keywords, whatever
\* follows the keyword.
C4_BlockedIffKeywordPrefix ==
    verdict # "none" => (verdict = "blocked" <=> StartsWithKeyword(sql))

\* C5: a pg_connect for an identifier that is in the registry is rejected as
\* already existing, at once, and constructs no pool and leaves the registry
\* as it was.
C5_ExistingRejected ==
    [][(Received("pg_connect") /\ New.id \in Keys)
          => /\ New.result = "AlreadyExists"
             /\ New.pc = "done"
             /\ New.pool = 0
             /\ pools' = pools
             /\ connections' = connections]_vars

C5_Witness ==
    \E c \in Calls("pg_connect") :
        calls[c].result = "AlreadyExists" /\ calls[c].id \in Keys

\* C6: end() is never called more than once on a pool, and once the process
\* has exited it has been called exactly once on every pool that was stored.
C6_EndExactlyOnce ==
    /\ \A p \in DOMAIN pools : pools[p].endCalls <= 1
    /\ sd.state = "exited"
          => \A p \in DOMAIN pools : pools[p].stored => pools[p].endCalls = 1

\* the calls of a tool that returned success
Succeeded(tool) == {c \in Calls(tool) : calls[c].result = "Success"}

\* a pg_disconnect that arrives for a connected identifier whose pool has not
\* been asked to end calls end() on it, and that end() will resolve
FirstDisconnectEnds ==
    (/\ Received("pg_disconnect")
     /\ hist[New.id] = "connected"
     /\ pools[ConnectionsGet(New.id).pool].endCalls = 0)
        => (/\ New.pc = "await_end"
            /\ New.settle = "resolve"
            /\ pools'[New.pool].endCalls = 1)

\* a pg_disconnect whose end() resolved returns success with the entry removed
EndedDisconnectRemoves ==
    \A c \in Calls("pg_disconnect") :
        (calls[c].settle = "resolve" /\ calls[c].pc = "await_end"
             /\ calls'[c].pc = "done")
            => (calls'[c].result = "Success" /\ calls[c].id \notin Keys')

\* a pg_disconnect that arrives after a successful disconnect, before a connect
\* succeeds, returns not-found and changes neither the registry nor a pool
LaterDisconnectNotFound ==
    (Received("pg_disconnect") /\ hist[New.id] = "disconnected")
        => (/\ New.result = "NotFound"
            /\ New.pc = "done"
            /\ connections' = connections
            /\ pools' = pools)

C8_ReadOnlyFixed ==
    [][\A id \in Ids :
          (id \in Keys /\ id \in Keys')
              => ConnectionsGet(id)'.readOnly = ConnectionsGet(id).readOnly]_vars

\* an optional string that was supplied and is not empty
Given(o) == o \notin {{}, {""}}

\* host, database, user and password are all supplied
Complete(a) == Given(a.host) /\ Given(a.database) /\ Given(a.user) /\ Given(a.password)

\* the pools constructed by call c
PoolsOf(c) == {p \in DOMAIN pools : pools[p].creator = c}

\* C9: a pg_connect that gets past the existence check builds exactly one
\* pool, from the caller's url if one is given, else from DATABASE_URL if it
\* is set, else from the caller's host, port, database, user, password and ssl
\* if host, database, user and password are all given; when none of these
\* resolves it returns the invalid-target error and constructs no pool.
C9_TargetPrecedence ==
    \A c \in Calls("pg_connect") :
        calls[c].result \notin {"AlreadyExists"} =>
        LET a == calls[c].args
            cfg == pools[calls[c].pool].config
        IN
        IF Given(a.url) \/ Given(env)
        THEN /\ PoolsOf(c) = {calls[c].pool}
             /\ cfg.kind = "connectionString"
             /\ cfg.connectionString = IF Given(a.url) THEN a.url ELSE env
        ELSE IF Complete(a)
        THEN /\ PoolsOf(c) = {calls[c].pool}
             /\ cfg.kind = "parameters"
             /\ cfg.host = a.host /\ cfg.database = a.database
             /\ cfg.user = a.user /\ cfg.password = a.password
             /\ cfg.port = IF a.port = {} THEN {5432} ELSE a.port
             /\ cfg.ssl = IF a.ssl = {TRUE} THEN {"rejectUnauthorized: false"}
                                           ELSE {"false"}
        ELSE /\ calls[c].result = "InvalidTarget"
             /\ calls[c].pc = "done"
             /\ PoolsOf(c) = {}

\* DATABASE_URL is set, the caller gave no url but all four parameters, and the
\* pool was built from DATABASE_URL
C9_Witness ==
    \E c \in Calls("pg_connect") :
        /\ ~Given(calls[c].args.url) /\ Given(env) /\ Complete(calls[c].args)
        /\ calls[c].result = "Success"
        /\ pools[calls[c].pool].config.connectionString = env

\* the SIGINT handler has started
ShuttingDown == sd.state # "idle"

\* C10: once the SIGINT handler has started, no pg_connect stores an entry or
\* returns success, and when process.exit is reached end() has been called on
\* every pool.
C10_NoConnectAfterShutdown ==
    /\ [](sd.state = "exited" => \A p \in DOMAIN pools : pools[p].endCalls >= 1)
    /\ [][ShuttingDown
            => /\ Succeeded("pg_connect")' = Succeeded("pg_connect")
               /\ Keys' \subseteq Keys]_vars

----------------------------------------------------------------------------
(* Properties of pg_get_ddl *)

\* the position of a kind of object in the order of the passes
PassOf(kind) == CHOOSE i \in DOMAIN Kinds : Kinds[i] = kind

\* the pg_get_ddl calls that returned the dump
Dumped == {c \in Calls("pg_get_ddl") : calls[c].result = "Success"}

\* the positions in the text of call c of the fragments with this statement
Positions(c, statement) ==
    {i \in DOMAIN calls[c].text : calls[c].text[i].text = statement}

\* C11: in the text pg_get_ddl returns, the fragments are in the order of the
\* passes (enums, sequences, tables, foreign keys, unique constraints,
\* indexes, views); every CREATE TABLE fragment precedes every ALTER TABLE
\* ... FOREIGN KEY fragment and both precede every CREATE VIEW fragment.
C11_PassOrder ==
    \A c \in Dumped :
        /\ \A i, j \in DOMAIN calls[c].text :
              i < j => PassOf(calls[c].text[i].of) <= PassOf(calls[c].text[j].of)
        /\ \A t \in Positions(c, "CREATE TABLE") :
           \A f \in Positions(c, "ALTER TABLE FOREIGN KEY") : t < f
        /\ \A f \in Positions(c, "ALTER TABLE FOREIGN KEY") :
           \A v \in Positions(c, "CREATE VIEW") : f < v
        /\ \A t \in Positions(c, "CREATE TABLE") :
           \A v \in Positions(c, "CREATE VIEW") : t < v

\* a dump with two tables, a foreign key and a view has been returned
C11_Witness ==
    \E c \in Dumped :
        /\ Cardinality(Positions(c, "CREATE TABLE")) >= 2
        /\ Positions(c, "ALTER TABLE FOREIGN KEY") # {}
        /\ Positions(c, "CREATE VIEW") # {}

\* the objects a dump with input.schema = schema has to show
Selected(schema) ==
    {i \in DOMAIN catalog : PassFilter(catalog[i].kind, schema, catalog[i].schema)}

\* the text of call c has the statement of object o, with its columns and
\* primary key when it is a table
Shows(c, o) ==
    \E i \in DOMAIN calls[c].text :
        calls[c].text[i] =
            [text |-> StatementOf(o.kind), of |-> o.kind, schema |-> o.schema,
             name |-> o.name, columns |-> o.columns, pk |-> o.pk]

\* the queries a complete dump sends: one per pass and two per table
QueriesOf(schema) == Len(Kinds) + 2 * Len(PassRows("table", schema))

\* a returned pg_get_ddl call: an error carries no fragment, a dump carries
\* the fragments of all passes and has sent every query
DdlAllOrNothing ==
    \A c \in Calls("pg_get_ddl") :
        /\ calls[c].pc = "done" => calls[c].result \in {"NotFound", "Error", "Success"}
        /\ calls[c].result \in {"NotFound", "Error"} =>
              /\ calls[c].text = <<>>
              /\ calls[c].parts = <<>>
        /\ calls[c].result = "Success" =>
              /\ \A i \in Selected(calls[c].args.schema) : Shows(c, catalog[i])
              /\ Len(calls[c].text) = 2 * Cardinality(Selected(calls[c].args.schema))
              /\ calls[c].sent = QueriesOf(calls[c].args.schema)

\* a step in which an introspection query of call c rejects ends the call
\* with the error
DdlFailureAborts ==
    \A c \in DOMAIN calls :
        DdlQueryFailed(c) =>
            /\ calls'[c].pc = "done"
            /\ calls'[c].result = "Error"
            /\ calls'[c].text = <<>>

\* C12: when an introspection query of pg_get_ddl fails, at any pass and
\* also because a disconnect overlaps the dump, the call returns an error
\* with none of the fragments of the earlier passes; a success result holds
\* the fragments of all seven passes.
C12_AllOrNothing == []DdlAllOrNothing /\ [][DdlFailureAborts]_vars

\* a dump was aborted at a per-table query, after fragments had been pushed,
\* by a disconnect that had called end() on its pool
C12_Witness ==
    /\ catalog = Shop
    /\ \E c \in Calls("pg_get_ddl") :
          /\ calls[c].result = "Error"
          /\ calls[c].settle = "reject"
          /\ calls[c].sent \in {4, 5}

----------------------------------------------------------------------------
(* Properties of the dispatch and of the registry *)

\* the payloads without isError
SuccessResults == {"Success", "Rows", "Command"}

\* the payloads with isError = true and a message
ErrorResults ==
    {"Error", "AlreadyExists", "InvalidTarget", "NotFound", "ReadOnlyViolation",
     "UnknownTool"}

\* C13: every tool call that ends, whatever the tool name, the arguments and
\* the outcome of the database layer, ends in a success payload or in a
\* payload with isError = true and a message; a call that has not ended is
\* awaiting the database.
C13_EveryCallReturns ==
    \A c \in DOMAIN calls :
        IF calls[c].pc = "done"
        THEN calls[c].result \in SuccessResults \cup ErrorResults
        ELSE calls[c].result = "pending"

\* an unknown tool, arguments that do not fit the schema and a failed probe
\* have each been answered with an error
C13_Witness ==
    /\ \E c \in DOMAIN calls : calls[c].result = "UnknownTool"
    /\ \E c \in DOMAIN calls :
          /\ calls[c].tool \in ToolNames
          /\ calls[c].id = ""
          /\ calls[c].result = "Error"
    /\ \E c \in Calls("pg_connect") :
          /\ calls[c].pool # 0
          /\ calls[c].result = "Error"

\* the tools that look their identifier up
LookupTools == {"pg_query", "pg_list_schemas", "pg_get_ddl", "pg_disconnect"}

\* this step receives a request of a lookup tool for an identifier
Looks(tool, id) ==
    /\ Received(tool)
    /\ New.id = id

\* a lookup of an identifier that is not in the registry returns the
\* not-found error and calls no pool
AbsentNotFound ==
    \A tool \in LookupTools, id \in Ids :
        (Looks(tool, id) /\ id \notin Keys) =>
            (New.result = "NotFound" /\ pools' = pools)

\* between the success of a pg_disconnect for an identifier and the success
\* of a later pg_connect for it, a lookup returns the not-found error
DisconnectedNotFound ==
    \A tool \in LookupTools, id \in Ids :
        (Looks(tool, id) /\ hist[id] = "disconnected") =>
            (New.result = "NotFound" /\ pools' = pools)

\* C14: pg_query, pg_list_schemas, pg_get_ddl and pg_disconnect on an
\* identifier that is not in the registry return the not-found error without
\* calling any pool; so does every such call that arrives after a
\* pg_disconnect for the identifier has returned success and before a later
\* connect for it succeeds.
C14_NotFound == [][AbsentNotFound /\ DisconnectedNotFound]_vars

\* after a successful disconnect of an identifier, a later lookup of it by
\* each kind of tool can be answered not-found
C14_Witness ==
    \E d \in Calls("pg_disconnect") :
        /\ calls[d].result = "Success"
        /\ hist[calls[d].id] = "disconnected"
        /\ \E c \in DOMAIN calls :
              /\ c > d
              /\ calls[c].tool \in {"pg_query", "pg_list_schemas", "pg_get_ddl"}
              /\ calls[c].id = calls[d].id
              /\ calls[c].result = "NotFound"

\* the registry entry of an identifier, if there is one
Entry(m, id) ==
    {[pool |-> m[i].pool, readOnly |-> m[i].readOnly] :
        i \in {j \in DOMAIN m : m[j].live /\ m[j].key = id}}

\* the identifier of the tool call that takes this step
Actor ==
    IF Len(calls') > Len(calls) THEN New.id
    ELSE calls[CHOOSE c \in DOMAIN calls : calls'[c] # calls[c]].id

\* a step of a tool call leaves the entry of every other identifier as it
\* is and does not call end() on its pool
OthersUntouched ==
    \A B \in Ids :
        (calls' # calls /\ Actor # B) =>
            /\ Entry(connections', B) = Entry(connections, B)
            /\ \A e \in Entry(connections, B) :
                  pools'[e.pool].endCalls = pools[e.pool].endCalls

\* C15: a step of a pg_connect, pg_disconnect, pg_query, pg_list_schemas or
\* pg_get_ddl call on identifier A, in any interleaving, leaves the registry
\* entry of every other identifier B unchanged and does not call end() on
\* B's pool.
C15_Independent == [][OthersUntouched]_vars

\* with two identifiers connected, one has been disconnected and the other
\* is still in the registry with its pool open
C15_Witness ==
    \E A, B \in Ids :
        /\ A # B
        /\ \E d \in Calls("pg_disconnect") :
              calls[d].id = A /\ calls[d].result = "Success"
        /\ A \notin Keys
        /\ B \in Keys
        /\ \A e \in Entry(connections, B) : pools[e.pool].endCalls = 0

\* C16: an identifier is in the registry only after a pg_connect for it has
\* completed its probe: every entry holds the pool of a pg_connect call for
\* its identifier that returned success, and the pool of a connect that is
\* awaiting its probe or whose probe failed is in no entry.
C16_OnlyAfterProbe ==
    /\ \A i \in DOMAIN connections :
          connections[i].live =>
              \E c \in Calls("pg_connect") :
                  /\ calls[c].id = connections[i].key
                  /\ calls[c].pool = connections[i].pool
                  /\ calls[c].result = "Success"
    /\ \A c \in Calls("pg_connect") :
          calls[c].result \in {"pending", "Error"} =>
              \A i \in DOMAIN connections :
                  connections[i].live => connections[i].pool # calls[c].pool
    /\ \A id \in Keys : \E c \in Calls("pg_connect") :
          calls[c].id = id /\ calls[c].result = "Success"

\* one connect for an identifier failed its probe, another is awaiting its
\* probe, and a lookup of the identifier was answered not-found
C16_Witness ==
    \E f, w \in Calls("pg_connect"), q \in DOMAIN calls :
        /\ calls[f].result = "Error"
        /\ calls[f].pool # 0
        /\ calls[w].pc \in {"await_connect", "await_version"}
        /\ calls[w].id = calls[f].id
        /\ calls[q].tool \in LookupTools
        /\ calls[q].id = calls[f].id
        /\ calls[q].result = "NotFound"
        /\ q > w

\* C17: when pg_get_ddl is given a schema, every fragment of every pass is of
\* an object of that schema; when it is given none, no fragment of any pass
\* is of an object of pg_catalog, information_schema or pg_toast.
C17_SchemaFilter ==
    \A c \in Dumped : \A i \in DOMAIN calls[c].text :
        IF Truthy(calls[c].args.schema)
        THEN calls[c].text[i].schema = Val(calls[c].args.schema)
        ELSE calls[c].text[i].schema \notin SystemSchemas

\* the pg_connect calls for id that omitted readOnly and returned success
ConnectedByDefault(id) ==
    {c \in Calls("pg_connect") :
        /\ calls[c].id = id
        /\ calls[c].args.readOnly = Undefined
        /\ calls[c].result = "Success"}

\* a blocked statement for an identifier that a pg_connect without readOnly
\* has connected, and that nobody has asked to disconnect, is rejected
DefaultRejects ==
    \A id \in Ids :
        ( /\ Received("pg_query")
          /\ New.id = id
          /\ isBlockedQuery(New.args.sql)
          /\ ConnectedByDefault(id) # {}
          /\ \A d \in Calls("pg_disconnect") : calls[d].id # id )
        => New.result = "ReadOnlyViolation"

\* C18: a pg_connect call that omits readOnly creates a read-only entry:
\* every later pg_query on that identifier with a blocked statement is
\* rejected.
C18_DefaultReadOnly == [][DefaultRejects]_vars

\* the tools that send statements to the pool of the entry they look up
QueryTools == {"pg_query", "pg_list_schemas", "pg_get_ddl"}

\* a request that obtains an entry, SIGINT not having arrived, obtains one
\* on whose pool end() has not been called
ObtainsOpenPool ==
    \A tool \in QueryTools :
        (Received(tool) /\ New.pool # 0 /\ sd.state = "idle")
            => pools[New.pool].endCalls = 0

\* C19: every entry that a lookup returns holds a pool on which end() has
\* not been called: no pg_query, pg_list_schemas or pg_get_ddl call that
\* overlaps a pg_disconnect of the same identifier obtains the entry after
\* the disconnect has started ending its pool.
C19_LookupFindsOpenPool == [][ObtainsOpenPool]_vars

\* the registry slots that hold pool p
Holders(p) ==
    {i \in DOMAIN connections : connections[i].live /\ connections[i].pool = p}

\* C20: in every state with no tool call in flight, each pool that has been
\* constructed and not ended is held by exactly one registry entry.
C20_OpenPoolsAreRegistered ==
    (\A c \in DOMAIN calls : calls[c].pc = "done") =>
        \A p \in DOMAIN pools :
            pools[p].endCalls = 0 => Cardinality(Holders(p)) = 1

----------------------------------------------------------------------------
(* Properties of failed connects, of progress and of the query tools *)

\* the calls that take this step: the one received or the one that moves on
Stepping ==
    {c \in DOMAIN calls' : c \notin DOMAIN calls \/ calls'[c] # calls[c]}

\* a step of a pg_connect call that does not end in success, from its
\* arrival to its error, leaves the registry as it is
FailedConnectKeepsRegistry ==
    \A c \in Stepping :
        (calls'[c].tool = "pg_connect" /\ calls'[c].result # "Success")
            => connections' = connections

\* a pg_connect is rejected as already existing only for an identifier that a
\* pg_connect that returned success has stored
ExistsOnlyAfterSuccess ==
    (Received("pg_connect") /\ New.result = "AlreadyExists") =>
        /\ New.id \in Keys
        /\ \E c \in Calls("pg_connect") :
              /\ calls[c].id = New.id
              /\ calls[c].result = "Success"
              /\ calls[c].pool = ConnectionsGet(New.id).pool

\* C21: a pg_connect call that fails for any reason (identifier exists,
\* invalid arguments, no usable target, probe failure) leaves the registry
\* exactly as it was, so a later connect for the identifier is not rejected
\* as already existing because of the failed attempt.
C21_FailedConnectNoTrace == [][FailedConnectKeepsRegistry /\ ExistsOnlyAfterSuccess]_vars

\* a connect whose probe failed had returned when a later connect for the
\* same identifier arrived, and that one succeeded
C21_Witness ==
    \E f, l \in Calls("pg_connect") :
        /\ f < l
        /\ calls[f].pool # 0
        /\ calls[f].result = "Error"
        /\ calls[l].id = calls[f].id
        /\ f \notin calls[l].overlap
        /\ calls[l].result = "Success"

\* call c has returned its result
HasReturned(c) == c \in DOMAIN calls /\ calls[c].pc = "done"

\* call c awaits the driver
Pending(c) == c \in DOMAIN calls /\ calls[c].pc # "done"

\* a call that has returned does not return again or change its result
ReturnsOnce ==
    \A c \in DOMAIN calls : calls[c].pc = "done" => calls'[c] = calls[c]

\* while the process runs, a call that awaits the driver can be resumed as
\* soon as the driver settles, whatever the other calls are doing
NeverWaitsOnACall ==
    \A c \in DOMAIN calls :
        (calls[c].pc # "done" /\ Running) =>
            /\ calls[c].settle # "reject" => ENABLED Resolves(c)
            /\ calls[c].settle # "resolve" => ENABLED Rejects(c)

QueryToolsKeepRegistry ==
    \A c \in Stepping :
        calls'[c].tool \in QueryTools => connections' = connections

\* C23: pg_query, pg_list_schemas and pg_get_ddl never add, remove or
\* replace a registry entry, whether they succeed or fail: the registry
\* changes only in steps of connect and disconnect calls.
C23_QueryToolsReadOnlyRegistry == [][QueryToolsKeepRegistry]_vars

\* one call of these tools has succeeded and one has failed on its query,
\* and the entry they looked up is still in the registry with its pool
C23_Witness ==
    \E ok, failed \in DOMAIN calls :
        /\ calls[ok].tool \in QueryTools
        /\ calls[ok].result \in SuccessResults
        /\ calls[failed].tool \in QueryTools
        /\ calls[failed].result = "Error"
        /\ calls[failed].pool # 0
        /\ calls[failed].id = calls[ok].id
        /\ calls[ok].id \in Keys
        /\ ConnectionsGet(calls[ok].id).pool = calls[ok].pool
        /\ ConnectionsGet(calls[ok].id).pool = calls[failed].pool

\* the pg_query calls that returned a success payload
Answered == {c \in Calls("pg_query") : calls[c].result \in SuccessResults}

\* C24: a successful pg_query returns the rows/rowCount/fields form exactly
\* when the backend reported the command SELECT, and the command/rowCount
\* form without row data for every other reported command, whatever the SQL
\* text and the readOnly flag of the entry.
C24_ShapeByCommand ==
    \A c \in Answered :
        /\ calls[c].command \in Commands
        /\ calls[c].result = "Rows" <=> calls[c].command = "SELECT"
        /\ calls[c].result = "Command" <=> calls[c].command # "SELECT"

\* on an entry that is not read-only, a statement the classifier blocks was
\* answered in the command form and another statement in the rows form
C24_Witness ==
    \E r, w \in Answered :
        /\ calls[r].result = "Rows"
        /\ ~isBlockedQuery(calls[r].args.sql)
        /\ calls[w].result = "Command"
        /\ isBlockedQuery(calls[w].args.sql)
        /\ ~calls[w].readOnly

====
